---- MODULE Spec2Model ----
(***************************************************************************)
(* A model of src/EmailAnalyzer.py: the records EmailParser makes of an    *)
(* upload, the deadline resolution and calendar encoding of                *)
(* CalendarIntegration.create_ics_event, the batch export of               *)
(* ExportManager.create_calendar_zip, the reply handling of                *)
(* EmailAnalyzer.analyze_email and what main does with its result.         *)
(*                                                                         *)
(* Text is modelled as a sequence of one-character strings.  The module    *)
(* language has ASCII strings only, so the three Hangul characters the     *)
(* source tests for are written "W" (wol, month), "I" (il, day) and "Y"    *)
(* (nyeon, year).                                                          *)
(***************************************************************************)
EXTENDS Integers, Sequences, FiniteSets, TLC

VARIABLES
    clock,      \* what datetime.now() returns: [ord |-> day ordinal, sec |-> second of day]
    ticks,      \* seconds the clock has advanced since the start
    icsCall,    \* the last create_ics_event call: its task, instants and returned document
    zip,        \* create_calendar_zip: [pc, tasks, i, members]
    analysis,   \* analyze_email and main's use of it: [pc, client, reply, requests,
                \* outcome, parse, errors, shown, recorded]
    views,      \* what the consumers of a task made of one task, and then of another
    parses,     \* the EmailParser calls of one upload: the call and the same call again
    padsYear    \* whether the C library's strftime writes %Y with four digits
                \* (BSD, Windows) or without leading zeros (glibc)

vars == <<clock, ticks, icsCall, zip, analysis, views, parses, padsYear>>

-----------------------------------------------------------------------------
(* Bounds of the model *)

MaxTicks == 2
MaxPieces == 2
MaxTasks == 2
MaxSegs == 2
MaxParts == 2

-----------------------------------------------------------------------------
(* Characters and Python values *)

WOL == "W"
IL == "I"
NYEON == "Y"

Digits == <<"0", "1", "2", "3", "4", "5", "6", "7", "8", "9">>

IsDigit(c) == \E k \in 1..10 : Digits[k] = c

DigitVal(c) == (CHOOSE k \in 1..10 : Digits[k] = c) - 1

\* None, and the absence of a key from a dict: neither is a text
None == <<"<None>">>
Missing == <<"<missing>">>

NullText == <<"n", "u", "l", "l">>

\* dict.get(key): None when the key is absent
Get(d, key) == IF d[key] = Missing THEN None ELSE d[key]

\* dict.get(key, default)
GetOr(d, key, default) == IF d[key] = Missing THEN default ELSE d[key]

\* truth value of None or of a str
Truthy(v) == v # None /\ v # Missing /\ v # <<>>

Contains(s, c) == \E k \in 1..Len(s) : s[k] = c

\* str.replace(c, '')
Remove(s, c) == SelectSeq(s, LAMBDA x : x # c)

RECURSIVE Flatten(_)
Flatten(ss) == IF ss = <<>> THEN <<>> ELSE Head(ss) \o Flatten(Tail(ss))

RECURSIVE DigitsValue(_, _)
DigitsValue(s, acc) ==
    IF s = <<>> THEN acc
    ELSE DigitsValue(Tail(s), acc * 10 + (IF IsDigit(Head(s)) THEN DigitVal(Head(s)) ELSE 0))

RECURSIVE NatText(_)
NatText(n) == IF n < 10 THEN <<Digits[n + 1]>> ELSE NatText(n \div 10) \o <<Digits[(n % 10) + 1]>>

RECURSIVE ZeroPad(_, _)
ZeroPad(s, width) == IF Len(s) >= width THEN s ELSE ZeroPad(<<"0">> \o s, width)

-----------------------------------------------------------------------------
(* The proleptic Gregorian calendar of datetime *)

IsLeap(y) == y % 4 = 0 /\ (y % 100 # 0 \/ y % 400 = 0)

DaysInMonth(y, m) ==
    IF m = 2 THEN (IF IsLeap(y) THEN 29 ELSE 28)
    ELSE IF m \in {4, 6, 9, 11} THEN 30 ELSE 31

DaysBeforeYear(y) == LET p == y - 1 IN p * 365 + (p \div 4) - (p \div 100) + (p \div 400)

RECURSIVE DaysBeforeMonth(_, _)
DaysBeforeMonth(y, m) == IF m <= 1 THEN 0 ELSE DaysBeforeMonth(y, m - 1) + DaysInMonth(y, m - 1)

Ymd2Ord(y, m, d) == DaysBeforeYear(y) + DaysBeforeMonth(y, m) + d

\* date.max.toordinal(): 9999-12-31; date.min is ordinal 1
MaxOrdinal == Ymd2Ord(9999, 12, 31)

SecondsPerDay == 24 * 3600

\* the year of a day ordinal, by the 400/100/4/1-year cycles
YearOfOrd(n) ==
    LET n0 == n - 1
        n400 == n0 \div 146097
        r400 == n0 % 146097
        n100 == r400 \div 36524
        r100 == r400 % 36524
        n4 == r100 \div 1461
        r4 == r100 % 1461
        n1 == r4 \div 365
        y == n400 * 400 + n100 * 100 + n4 * 4 + n1 + 1
    IN  IF n1 = 4 \/ n100 = 4 THEN y - 1 ELSE y

Ord2Ymd(n) ==
    LET y == YearOfOrd(n)
        rest == n - DaysBeforeYear(y)
        m == CHOOSE k \in 1..12 :
                 DaysBeforeMonth(y, k) < rest /\ rest <= DaysBeforeMonth(y, k) + DaysInMonth(y, k)
    IN  [year |-> y, month |-> m, day |-> rest - DaysBeforeMonth(y, m)]

DateTime(y, m, d, s) == [ord |-> Ymd2Ord(y, m, d), sec |-> s]

\* strftime('%Y%m%d'): the platform's strftime writes the year, with leading
\* zeros or without
DateDigits(dt) ==
    LET ymd == Ord2Ymd(dt.ord)
    IN  (IF padsYear THEN ZeroPad(NatText(ymd.year), 4) ELSE NatText(ymd.year))
          \o ZeroPad(NatText(ymd.month), 2) \o ZeroPad(NatText(ymd.day), 2)

TimeDigits(dt) ==
    ZeroPad(NatText(dt.sec \div 3600), 2) \o ZeroPad(NatText((dt.sec % 3600) \div 60), 2)
      \o ZeroPad(NatText(dt.sec % 60), 2)

\* strftime('%Y%m%d%H%M%S')
StrftimeCompact(dt) == DateDigits(dt) \o TimeDigits(dt)

\* strftime('%Y%m%dT%H%M%SZ')
StrftimeStamp(dt) == DateDigits(dt) \o <<"T">> \o TimeDigits(dt) \o <<"Z">>

\* datetime + timedelta(seconds=1)
AddSecond(dt) ==
    IF dt.sec + 1 < SecondsPerDay THEN [ord |-> dt.ord, sec |-> dt.sec + 1]
    ELSE [ord |-> dt.ord + 1, sec |-> 0]

-----------------------------------------------------------------------------
(* datetime.strptime: the format is compiled to a regular expression, a     *)
(* directive to its digit pattern, white space to \s+, any other character  *)
(* to itself; the whole text must match, and the date must exist.           *)

Directives == {"%Y", "%m", "%d"}

DirectiveLens(f) == IF f = "%Y" THEN {4} ELSE {1, 2}

\* %Y: \d\d\d\d   %m: 1[0-2]|0[1-9]|[1-9]   %d: 3[01]|[12]\d|0[1-9]|[1-9]| [1-9]
DirectiveOk(f, c) ==
    IF f = "%Y" THEN \A k \in 1..Len(c) : IsDigit(c[k])
    ELSE IF Len(c) = 1 THEN IsDigit(c[1]) /\ c[1] # "0"
    ELSE IF f = "%m" THEN
        \/ c[1] = "1" /\ c[2] \in {"0", "1", "2"}
        \/ c[1] = "0" /\ IsDigit(c[2]) /\ c[2] # "0"
    ELSE
        \/ c[1] = "3" /\ c[2] \in {"0", "1"}
        \/ c[1] \in {"1", "2"} /\ IsDigit(c[2])
        \/ c[1] \in {"0", " "} /\ IsDigit(c[2]) /\ c[2] # "0"

\* the fields of every way the format from item i on matches the text from
\* position j to its end
RECURSIVE MatchFrom(_, _, _, _, _)
MatchFrom(fmt, i, s, j, env) ==
    IF i > Len(fmt) THEN (IF j > Len(s) THEN {env} ELSE {})
    ELSE LET f == fmt[i] IN
        IF f \in Directives THEN
            UNION { IF j + k - 1 <= Len(s) /\ DirectiveOk(f, SubSeq(s, j, j + k - 1))
                    THEN MatchFrom(fmt, i + 1, s, j + k,
                                   [env EXCEPT ![f] = DigitsValue(SubSeq(s, j, j + k - 1), 0)])
                    ELSE {} : k \in DirectiveLens(f) }
        ELSE IF f = " " THEN
            UNION { IF \A q \in j..(j + k - 1) : s[q] = " "
                    THEN MatchFrom(fmt, i + 1, s, j + k, env)
                    ELSE {} : k \in 1..(Len(s) - j + 1) }
        ELSE IF j <= Len(s) /\ s[j] = f THEN MatchFrom(fmt, i + 1, s, j + 1, env)
        ELSE {}

\* outcomes of an evaluation: a value, or the exception it raises
Ok(v) == [exc |-> "none", v |-> v]
Raise(e) == [exc |-> e, v |-> [ord |-> 0, sec |-> 0]]

\* datetime.strptime(s, fmt): midnight of the date read, or ValueError
Strptime(s, fmt) ==
    LET found == MatchFrom(fmt, 1, s, 1, [f \in Directives |-> IF f = "%Y" THEN 1900 ELSE 1])
    IN  IF found = {} THEN Raise("ValueError")
        ELSE LET e == CHOOSE x \in found : TRUE IN
            IF e["%Y"] < 1 \/ e["%d"] > DaysInMonth(e["%Y"], e["%m"]) THEN Raise("ValueError")
            ELSE Ok(DateTime(e["%Y"], e["%m"], e["%d"], 0))

\* str.strip() of the white space the model has
RECURSIVE LStrip(_)
LStrip(s) == IF s # <<>> /\ Head(s) \in {" ", "\n"} THEN LStrip(Tail(s)) ELSE s

RECURSIVE RStrip(_)
RStrip(s) ==
    IF s # <<>> /\ s[Len(s)] \in {" ", "\n"} THEN RStrip(SubSeq(s, 1, Len(s) - 1)) ELSE s

Strip(s) == RStrip(LStrip(s))

\* timedelta.max.days
MaxDeltaDays == 1000000000 - 1

\* the value of a decimal numeral; every value past timedelta's range is kept
\* as the one value MaxDeltaDays + 1, which timedelta rejects like the others
RECURSIVE NumeralValue(_, _)
NumeralValue(s, acc) ==
    IF s = <<>> THEN acc
    ELSE IF acc > (MaxDeltaDays - DigitVal(Head(s))) \div 10 THEN MaxDeltaDays + 1
    ELSE NumeralValue(Tail(s), acc * 10 + DigitVal(Head(s)))

\* int(s): white space around, an optional sign, then decimal digits; ValueError otherwise
PyInt(s) ==
    LET t == Strip(s)
        signed == t # <<>> /\ Head(t) \in {"-", "+"}
        body == IF signed THEN Tail(t) ELSE t
    IN  IF body = <<>> \/ \E k \in 1..Len(body) : ~IsDigit(body[k])
        THEN [exc |-> "ValueError", v |-> 0]
        ELSE [exc |-> "none",
              v |-> IF signed /\ Head(t) = "-" THEN 0 - NumeralValue(body, 0)
                    ELSE NumeralValue(body, 0)]

\* AddDays on the date alone, the time of day lost
AddDaysToDate(dt, n) ==
    IF n > MaxDeltaDays \/ n < 0 - MaxDeltaDays THEN Raise("OverflowError")
    ELSE IF dt.ord + n < 1 \/ dt.ord + n > MaxOrdinal THEN Raise("OverflowError")
    ELSE Ok([ord |-> dt.ord + n, sec |-> 0])

\* datetime + timedelta(days=n): OverflowError when the timedelta or the date
\* is out of range
AddDays(dt, n) ==
    IF n > MaxDeltaDays \/ n < 0 - MaxDeltaDays THEN Raise("OverflowError")
    ELSE IF dt.ord + n < 1 \/ dt.ord + n > MaxOrdinal THEN Raise("OverflowError")
    ELSE Ok([ord |-> dt.ord + n, sec |-> dt.sec])

-----------------------------------------------------------------------------
(* EmailParser *)

\* a byte that is not UTF-8
BadByte == "#"

\* bytes.decode('utf-8', errors='ignore')
Decode(bytes) == SelectSeq(bytes, LAMBDA c : c # BadByte)

\* where the first ">" of s at or after position j is, 0 when there is none
RECURSIVE FirstClose(_, _)
FirstClose(s, j) ==
    IF j > Len(s) THEN 0 ELSE IF s[j] = ">" THEN j ELSE FirstClose(s, j + 1)

\* re.sub(r'<[^>]+>', '', s) from position i on: a "<", one character or more
\* other than ">", and a ">" are dropped, leftmost first
RECURSIVE StripTagsFrom(_, _)
StripTagsFrom(s, i) ==
    IF i > Len(s) THEN <<>>
    ELSE IF s[i] = "<" /\ FirstClose(s, i + 1) > i + 1
    THEN StripTagsFrom(s, FirstClose(s, i + 1) + 1)
    ELSE <<s[i]>> \o StripTagsFrom(s, i + 1)

StripTags(s) == StripTagsFrom(s, 1)

\* lines 55-62: body after the parts of msg.walk() from the k-th on
RECURSIVE WalkParts(_, _, _)
WalkParts(parts, k, body) ==
    IF k > Len(parts) THEN body
    ELSE IF parts[k].type = "text/plain"
    THEN WalkParts(parts, k + 1, body \o Decode(parts[k].payload))
    ELSE IF parts[k].type = "text/html" /\ body = <<>>
    THEN WalkParts(parts, k + 1, StripTags(Decode(parts[k].payload)))
    ELSE WalkParts(parts, k + 1, body)

\* lines 53-64
EmlBody(msg) ==
    IF msg.multipart THEN WalkParts(msg.parts, 1, <<>>)
    ELSE Decode(msg.parts[1].payload)

\* line 72
EmlFullContent(subject, sender, recipients, date, body) ==
    <<"Subject: ">> \o subject \o <<"\n", "From: ">> \o sender \o <<"\n", "To: ">> \o recipients
        \o <<"\n", "Date: ">> \o date \o <<"\n", "\n">> \o body

\* parse_eml_file(file_content), the message being what
\* email.message_from_bytes makes of the bytes
parse_eml_file(msg) ==
    [subject |-> msg.subject, sender |-> msg.sender, recipients |-> msg.recipients,
     date |-> msg.date, body |-> EmlBody(msg),
     full_content |-> EmlFullContent(msg.subject, msg.sender, msg.recipients, msg.date,
                                     EmlBody(msg))]

\* strftime('%Y-%m-%d %H:%M:%S')
StrftimeDashed(dt) ==
    LET ymd == Ord2Ymd(dt.ord)
    IN  (IF padsYear THEN ZeroPad(NatText(ymd.year), 4) ELSE NatText(ymd.year))
          \o <<"-">> \o ZeroPad(NatText(ymd.month), 2) \o <<"-">> \o ZeroPad(NatText(ymd.day), 2)
          \o <<" ">> \o ZeroPad(NatText(dt.sec \div 3600), 2)
          \o <<":">> \o ZeroPad(NatText((dt.sec % 3600) \div 60), 2)
          \o <<":">> \o ZeroPad(NatText(dt.sec % 60), 2)

\* parse_msg_file(file_content) called at the instant now
parse_msg_file(file_content, now) ==
    [subject |-> <<"parsed MSG file">>, sender |-> <<"unknown">>, recipients |-> <<"unknown">>,
     date |-> StrftimeDashed(now), body |-> Decode(file_content),
     full_content |-> Decode(file_content)]

-----------------------------------------------------------------------------
(* CalendarIntegration.create_ics_event *)

FALLBACK_DAYS == 7

\* the ISO format with day and month exchanged
FmtIsoDayMonth == <<"%Y", "-", "%d", "-", "%m">>

FmtIso == <<"%Y", "-", "%m", "-", "%d">>
FmtSlash == <<"%m", "/", "%d">>
FmtMonthDay == <<"%m", WOL, " ", "%d", IL>>
FmtDay == <<"%d", IL>>
FmtYearMonthDay == <<"%Y", NYEON, " ", "%m", WOL, " ", "%d", IL>>

\* the list the for loop walks
Formats == <<FmtIso, FmtSlash, FmtMonthDay, FmtDay>>

\* YearText giving the year after that of now
YearTextNext(now) == NatText(Ord2Ymd(now.ord).year + 1)

\* f"{datetime.now().year}"
YearText(now) == NatText(Ord2Ymd(now.ord).year)

\* TryFormat with the test for IL before the test for WOL
TryFormatDayFirst(fmt, deadline_str, now) ==
    IF fmt \in {<<"%m", "/", "%d">>, <<"%m", WOL, " ", "%d", IL>>, <<"%d", IL>>} THEN
        IF Contains(deadline_str, IL) THEN
            LET n == PyInt(Remove(deadline_str, IL))
            IN  [r |-> IF n.exc # "none" THEN Raise(n.exc) ELSE AddDays(now, n.v),
                 ds |-> deadline_str, path |-> "nday"]
        ELSE IF Contains(deadline_str, WOL) THEN
            LET prefixed == YearText(now) \o <<NYEON, " ">> \o deadline_str
            IN  [r |-> Strptime(prefixed, <<"%Y", NYEON, " ", "%m", WOL, " ", "%d", IL>>),
                 ds |-> prefixed, path |-> "month"]
        ELSE
            [r |-> Strptime(YearText(now) \o <<"/">> \o deadline_str, <<"%Y", "/">> \o fmt),
             ds |-> deadline_str, path |-> "slash"]
    ELSE [r |-> Strptime(deadline_str, fmt), ds |-> deadline_str, path |-> "iso"]

\* one pass of the loop body for format fmt: the outcome of the try block and
\* the working string it leaves in deadline_str
TryFormat(fmt, deadline_str, now) ==
    IF fmt \in {FmtSlash, FmtMonthDay, FmtDay} THEN
        IF Contains(deadline_str, WOL) THEN
            LET prefixed == YearText(now) \o <<NYEON, " ">> \o deadline_str
            IN  [r |-> Strptime(prefixed, FmtYearMonthDay), ds |-> prefixed, path |-> "month"]
        ELSE IF Contains(deadline_str, IL) THEN
            LET n == PyInt(Remove(deadline_str, IL))
            IN  [r |-> IF n.exc # "none" THEN Raise(n.exc) ELSE AddDays(now, n.v),
                 ds |-> deadline_str, path |-> "nday"]
        ELSE
            [r |-> Strptime(YearText(now) \o <<"/">> \o deadline_str, <<"%Y", "/">> \o fmt),
             ds |-> deadline_str, path |-> "slash"]
    ELSE [r |-> Strptime(deadline_str, fmt), ds |-> deadline_str, path |-> "iso"]

\* the fallback date of lines 134, 136 and 138
Fallback(now, path, deadline_str) ==
    [r |-> AddDays(now, FALLBACK_DAYS), path |-> path, ds |-> deadline_str]

\* the for loop from its k-th format on: break on success, continue on
\* ValueError, the for-else after the last format, the bare except for any
\* other exception
RECURSIVE TryFormats(_, _, _)
TryFormats(k, deadline_str, now) ==
    IF k > Len(Formats) THEN Fallback(now, "unparsed", deadline_str)
    ELSE LET a == TryFormat(Formats[k], deadline_str, now) IN
        IF a.r.exc = "none" THEN a
        ELSE IF a.r.exc = "ValueError" THEN TryFormats(k + 1, a.ds, now)
        ELSE Fallback(now, "except", a.ds)

\* ResolveDeadline without the else branch of line 137: due_date is unbound
\* when the deadline is absent
ResolveDeadlineNoElse(task, now) ==
    IF Truthy(Get(task, "deadline")) /\ task["deadline"] # NullText
    THEN TryFormats(1, task["deadline"], now)
    ELSE [r |-> Raise("UnboundLocalError"), path |-> "absent", ds |-> <<>>]

\* ResolveDeadline with no bare except around the loop: an exception other
\* than ValueError leaves the function
ResolveDeadlineNoBareExcept(task, now) ==
    IF Truthy(Get(task, "deadline")) /\ task["deadline"] # NullText
    THEN LET res == TryFormats(1, task["deadline"], now)
         IN  IF res.path = "except"
             THEN [r |-> Raise("OverflowError"), path |-> "except", ds |-> res.ds]
             ELSE res
    ELSE Fallback(now, "absent", <<>>)

\* lines 111-138: due_date, with the branch that set it
ResolveDeadline(task, now) ==
    IF Truthy(Get(task, "deadline")) /\ task["deadline"] # NullText
    THEN TryFormats(1, task["deadline"], now)
    ELSE Fallback(now, "absent", <<>>)

HighText == <<"h", "i", "g", "h">>
MediumText == <<"m", "e", "d", "i", "u", "m">>
LowText == <<"l", "o", "w">>
DefaultSummary == <<"h", "a", "l", "i", "l">>
DefaultAssignee == <<"m", "i", "j", "e", "o", "n", "g">>

\* str(v), and what an f-string writes for v
Str(v) == IF v = None THEN <<"N", "o", "n", "e">> ELSE v

\* PriorityNumber with the numbers of high and low exchanged
PriorityNumberSwapped(task) ==
    IF Get(task, "priority") = LowText THEN 1
    ELSE IF Get(task, "priority") = HighText THEN 5 ELSE 3

\* line 154
PriorityNumber(task) ==
    IF Get(task, "priority") = LowText THEN 5
    ELSE IF Get(task, "priority") = HighText THEN 1 ELSE 3

NoDocument ==
    [returned |-> "None", uid |-> <<>>, dtstart |-> <<>>, dtend |-> <<>>, dtstamp |-> <<>>,
     summary |-> <<>>, descPriority |-> <<>>, descAssignee |-> <<>>, descSubject |-> <<>>,
     priority |-> 0, status |-> ""]

\* IcsDocument with an event that lasts one second
IcsDocumentWithDuration(task, email_subject, stampAt, resolveAt) ==
    LET res == ResolveDeadline(task, resolveAt) IN
    IF res.r.exc # "none" THEN NoDocument
    ELSE [returned |-> "document",
          uid |-> <<"email-task-">> \o StrftimeCompact(stampAt),
          dtstart |-> StrftimeStamp(res.r.v),
          dtend |-> StrftimeStamp(AddSecond(res.r.v)),
          dtstamp |-> StrftimeStamp(stampAt),
          summary |-> Str(GetOr(task, "task", DefaultSummary)),
          descPriority |-> Str(GetOr(task, "priority", MediumText)),
          descAssignee |-> Str(GetOr(task, "assignee", DefaultAssignee)),
          descSubject |-> email_subject,
          priority |-> PriorityNumber(task),
          status |-> "NEEDS-ACTION"]

\* the VCALENDAR text, field by field; stampAt is the clock at lines 107-108,
\* resolveAt the clock when the deadline is resolved
IcsDocument(task, email_subject, stampAt, resolveAt) ==
    LET res == ResolveDeadline(task, resolveAt) IN
    IF res.r.exc # "none" THEN NoDocument
    ELSE [returned |-> "document",
          uid |-> <<"email-task-">> \o StrftimeCompact(stampAt),
          dtstart |-> StrftimeStamp(res.r.v),
          dtend |-> StrftimeStamp(res.r.v),
          dtstamp |-> StrftimeStamp(stampAt),
          summary |-> Str(GetOr(task, "task", DefaultSummary)),
          descPriority |-> Str(GetOr(task, "priority", MediumText)),
          descAssignee |-> Str(GetOr(task, "assignee", DefaultAssignee)),
          descSubject |-> email_subject,
          priority |-> PriorityNumber(task),
          status |-> "NEEDS-ACTION"]

\* TaskAfter when line 121 assigns to task['deadline'] instead of the local
TaskAfterWriteBack(task, deadline_str) ==
    IF Truthy(Get(task, "deadline")) /\ task["deadline"] # NullText
    THEN [task EXCEPT !["deadline"] = deadline_str]
    ELSE task

\* the dict passed as task when create_ics_event returns: lines 111-159 read
\* it with get and [] and assign only to the locals deadline_str and due_date
TaskAfter(task, deadline_str) == task

\* lines 170-184: the row create_calendar_summary makes for the i-th task
SummaryRow(i, task) ==
    [number |-> i,
     task |-> GetOr(task, "task", <<>>),
     priority |-> GetOr(task, "priority", MediumText),
     deadline |-> IF Truthy(Get(task, "deadline")) /\ task["deadline"] # NullText
                  THEN task["deadline"] ELSE DefaultAssignee,
     assignee |-> GetOr(task, "assignee", DefaultAssignee),
     status |-> "open"]

\* create_calendar_summary(tasks): the rows of the table
create_calendar_summary(tasks) == [i \in 1..Len(tasks) |-> SummaryRow(i, tasks[i])]

\* create_ics_event(task, email_subject): what it returns, with the values of
\* its locals due_date and deadline_str when it returns
create_ics_event(task, email_subject, stampAt, resolveAt) ==
    LET res == ResolveDeadline(task, resolveAt)
    IN  [doc |-> IcsDocument(task, email_subject, stampAt, resolveAt),
         due_date |-> res.r.v, path |-> res.path, deadline_str |-> res.ds]

-----------------------------------------------------------------------------
(* The other consumers of a task: create_pdf_report, create_excel_report and *)
(* display_analysis_result                                                   *)

\* s.replace(c, w): every character c of s becomes the text w
ReplaceChar(s, c, w) == Flatten([k \in 1..Len(s) |-> IF s[k] = c THEN w ELSE <<s[k]>>])

\* lines 349-354: the description cut to 40 characters, then the three
\* replacements in the order of line 354
PdfTaskText(task) ==
    LET text == Str(GetOr(task, "task", <<>>))
        cut == IF Len(text) > 40 THEN SubSeq(text, 1, 40) \o <<".", ".", ".">> ELSE text
    IN  ReplaceChar(ReplaceChar(ReplaceChar(cut, "<", <<"&", "l", "t", ";">>),
                                ">", <<"&", "g", "t", ";">>),
                    "&", <<"&", "a", "m", "p", ";">>)

\* lines 356-362: a field that is 'null' or None is shown as the placeholder
PdfField(task, key) ==
    IF GetOr(task, key, DefaultAssignee) \in {NullText, None} THEN DefaultAssignee
    ELSE Str(GetOr(task, key, DefaultAssignee))

\* lines 364-370: the row of the task table of the PDF report
PdfRow(i, task) ==
    [number |-> NatText(i), task |-> PdfTaskText(task),
     priority |-> Str(GetOr(task, "priority", MediumText)),
     deadline |-> PdfField(task, "deadline"), assignee |-> PdfField(task, "assignee")]

\* lines 465-466: a field that is 'null' is shown as the placeholder
ExcelField(task, key) ==
    IF Get(task, key) # NullText THEN GetOr(task, key, DefaultAssignee) ELSE DefaultAssignee

\* lines 461-468: the row of the task sheet of the Excel report
ExcelRow(i, task) ==
    [number |-> i, task |-> GetOr(task, "task", <<>>),
     priority |-> GetOr(task, "priority", MediumText),
     deadline |-> ExcelField(task, "deadline"), assignee |-> ExcelField(task, "assignee"),
     status |-> "open"]

\* lines 1117-1127: a field that is false or 'null' is shown as the placeholder
DisplayField(task, key) ==
    IF Truthy(Get(task, key)) /\ Get(task, key) # NullText THEN Str(Get(task, key))
    ELSE DefaultAssignee

\* lines 1101-1127: what display_analysis_result writes for the i-th task
DisplayTask(i, task) ==
    [title |-> NatText(i) \o <<".", " ">> \o Str(GetOr(task, "task", <<>>)),
     priority |-> Str(GetOr(task, "priority", MediumText)),
     deadline |-> DisplayField(task, "deadline"), assignee |-> DisplayField(task, "assignee")]

-----------------------------------------------------------------------------
(* ExportManager.create_calendar_zip *)

UnsafeChars == {"<", ">", ":", "\"", "/", "\\", "|", "?", "*"}

\* re.sub(r'[<>:"/\\|?*]', '_', filename)
Sanitize(s) == [k \in 1..Len(s) |-> IF s[k] \in UnsafeChars THEN "_" ELSE s[k]]

\* s[:n]
Take(s, n) == IF Len(s) <= n THEN s ELSE SubSeq(s, 1, n)

\* MemberName without the number of the task
MemberNameNoIndex(i, task) ==
    Sanitize(<<"t", "a", "s", "k", "_">>
               \o Take(GetOr(task, "task", <<"t", "a", "s", "k">>), 20)
               \o <<".", "i", "c", "s">>)

\* lines 493-495: the member name of the i-th task
MemberName(i, task) ==
    Sanitize(<<"t", "a", "s", "k", "_">> \o NatText(i) \o <<"_">>
               \o Take(GetOr(task, "task", <<"t", "a", "s", "k">>), 20)
               \o <<".", "i", "c", "s">>)

-----------------------------------------------------------------------------
(* EmailAnalyzer.analyze_email.  A reply is a text over the characters      *)
(* " " and "\n", "B" for a run of three backquotes, "j" for the word json,  *)
(* "{", "}" and ",", "x" for any other character, and one character for     *)
(* each "key": value member a JSON object of the reply may hold.            *)

SchemaKeys ==
    {"summary", "key_points", "tasks", "action_items", "follow_up", "sentiment", "urgency_level"}

\* the members of the model: the character, its key and its value
Members ==
    { [c |-> "S", key |-> "summary", value |-> <<"s">>],
      [c |-> "K", key |-> "key_points", value |-> << <<"k">> >>],
      [c |-> "T", key |-> "tasks", value |-> <<>>],
      [c |-> "A", key |-> "action_items", value |-> << <<"a">> >>],
      [c |-> "F", key |-> "follow_up", value |-> <<"f">>],
      [c |-> "P", key |-> "sentiment", value |-> "positive"],
      [c |-> "G", key |-> "sentiment", value |-> "angry"],
      [c |-> "U", key |-> "urgency_level", value |-> "high"],
      [c |-> "R", key |-> "raw_response", value |-> <<"r">>] }

IsMember(c) == \E m \in Members : m.c = c

MemberOf(c) == CHOOSE m \in Members : m.c = c

EmptyDict == [k \in {} |-> <<>>]

\* d[key] = value
DictSet(d, key, value) ==
    [k \in DOMAIN d \cup {key} |-> IF k = key THEN value ELSE d[k]]

\* the members "m , m , ... m" of an object body from position j on, added to
\* dict d in order (a repeated key keeps its last value); JSONDecodeError when
\* the body is no such list
RECURSIVE JsonMembers(_, _, _)
JsonMembers(t, j, d) ==
    IF j > Len(t) \/ ~IsMember(t[j]) THEN [exc |-> "JSONDecodeError", v |-> EmptyDict]
    ELSE LET d2 == DictSet(d, MemberOf(t[j]).key, MemberOf(t[j]).value) IN
        IF j = Len(t) THEN [exc |-> "none", v |-> d2]
        ELSE IF t[j + 1] = "," THEN JsonMembers(t, j + 2, d2)
        ELSE [exc |-> "JSONDecodeError", v |-> EmptyDict]

\* json.loads(s): white space between tokens is skipped; the document is one
\* object, or the call raises JSONDecodeError
JsonLoads(s) ==
    LET t == SelectSeq(s, LAMBDA c : c \notin {" ", "\n"}) IN
    IF Len(t) < 2 \/ t[1] # "{" \/ t[Len(t)] # "}" THEN [exc |-> "JSONDecodeError", v |-> EmptyDict]
    ELSE IF Len(t) = 2 THEN [exc |-> "none", v |-> EmptyDict]
    ELSE JsonMembers(SubSeq(t, 2, Len(t) - 1), 1, EmptyDict)

FenceOpen == <<"B", "j", "\n">>
FenceClose == <<"\n", "B">>

IsAt(s, p, w) == p + Len(w) - 1 <= Len(s) /\ SubSeq(s, p, p + Len(w) - 1) = w

\* where the search of line 564 for a fenced json block matches: the leftmost
\* opening that a closing follows, and the first closing after it
FenceStarts(s) ==
    {p \in 1..Len(s) : IsAt(s, p, FenceOpen)
                        /\ \E q \in (p + Len(FenceOpen))..Len(s) : IsAt(s, q, FenceClose)}

FenceFound(s) == FenceStarts(s) # {}

\* FenceGroup taking the last fenced block of the reply
FenceGroupLast(s) ==
    LET p == CHOOSE x \in FenceStarts(s) : \A y \in FenceStarts(s) : x >= y
        from == p + Len(FenceOpen)
        q == CHOOSE x \in from..Len(s) :
                 IsAt(s, x, FenceClose) /\ \A y \in from..(x - 1) : ~IsAt(s, y, FenceClose)
    IN  SubSeq(s, from, q - 1)

\* json_match.group(1)
FenceGroup(s) ==
    LET p == CHOOSE x \in FenceStarts(s) : \A y \in FenceStarts(s) : x <= y
        from == p + Len(FenceOpen)
        q == CHOOSE x \in from..Len(s) :
                 IsAt(s, x, FenceClose) /\ \A y \in from..(x - 1) : ~IsAt(s, y, FenceClose)
    IN  SubSeq(s, from, q - 1)

\* _parse_fallback_response with the fenced text, not the reply, kept
parse_fallback_response_group(response_text) ==
    [summary |-> <<"parse error">>,
     key_points |-> << <<"see the raw response">> >>,
     tasks |-> <<>>,
     action_items |-> <<>>,
     follow_up |-> <<"retry">>,
     sentiment |-> "neutral",
     urgency_level |-> "medium",
     raw_response |-> IF FenceFound(response_text) THEN FenceGroup(response_text)
                      ELSE response_text]

\* _parse_fallback_response with the tasks key left out
parse_fallback_response_no_tasks(response_text) ==
    [summary |-> <<"parse error">>,
     key_points |-> << <<"see the raw response">> >>,
     action_items |-> <<>>,
     follow_up |-> <<"retry">>,
     sentiment |-> "neutral",
     urgency_level |-> "medium",
     raw_response |-> response_text]

\* lines 582-593; the three canned Korean sentences are written in English
parse_fallback_response(response_text) ==
    [summary |-> <<"parse error">>,
     key_points |-> << <<"see the raw response">> >>,
     tasks |-> <<>>,
     action_items |-> <<>>,
     follow_up |-> <<"retry">>,
     sentiment |-> "neutral",
     urgency_level |-> "medium",
     raw_response |-> response_text]

\* lines 561-576: from the content of the reply to the returned dict, with the
\* branch taken
ParseReply(content) ==
    LET response_text == Strip(content)
        json_str == IF FenceFound(response_text) THEN FenceGroup(response_text)
                    ELSE response_text
        loaded == JsonLoads(json_str)
    IN  IF loaded.exc = "none" THEN [path |-> "parsed", result |-> loaded.v]
        ELSE [path |-> "fallback", result |-> parse_fallback_response(response_text)]

-----------------------------------------------------------------------------
(* Inputs *)

\* the clock at the start: the last second of 28 February of a leap year and
\* the last second of a common year
StartInstants == {DateTime(2024, 2, 28, SecondsPerDay - 1), DateTime(2025, 12, 31, SecondsPerDay - 1)}

NumTexts ==
    { <<"3">>, <<"0", "3">>, <<"1", "3">>, <<"3", "0">>, <<"2">>, <<"0", "2">>, <<"2", "9">>,
      <<"2", "0", "2", "4">>, <<"2", "0", "2", "5">>,
      <<"9", "9", "9", "9", "9", "9", "9">> }

SepTexts == { <<"-">>, <<"/">>, <<" ">>, <<WOL>>, <<IL>>, <<"x">> }

Pieces == {<<"3">>, <<"1", "3">>} \cup SepTexts

\* every text made of at most n pieces
RECURSIVE Texts(_)
Texts(n) == IF n = 0 THEN {<<>>} ELSE Texts(n - 1) \cup {t \o p : t \in Texts(n - 1), p \in Pieces}

IsoTexts == {y \o <<"-">> \o m \o <<"-">> \o d : y \in NumTexts, m \in NumTexts, d \in NumTexts}
MonthDayTexts == {m \o <<WOL>> \o sp \o d \o <<IL>> : m \in NumTexts, d \in NumTexts, sp \in {<<>>, <<" ">>}}
SlashTexts == {m \o <<"/">> \o d : m \in NumTexts, d \in NumTexts}
DayTexts == {sign \o n \o <<IL>> : sign \in {<<>>, <<"-">>}, n \in NumTexts}

\* deadlines before the year 1000: a date, and a count of days back to one
EarlyTexts ==
    { <<"0", "9", "9", "9", "-", "0", "1", "-", "0", "2">>,
      <<"-", "4", "0", "0", "0", "0", "0", IL>> }

DeadlineTexts ==
    Texts(MaxPieces) \cup IsoTexts \cup MonthDayTexts \cup SlashTexts \cup DayTexts
        \cup EarlyTexts

\* a deadline is absent from the dict, null, the text 'null', or a text
DeadlineValues == {Missing, None, NullText} \cup DeadlineTexts

MakeTask(description, priority, deadline, assignee) ==
    [task |-> description, priority |-> priority, deadline |-> deadline, assignee |-> assignee]

IcsTasks == {MakeTask(<<"a">>, HighText, d, None) : d \in DeadlineValues}

\* a description of 21 characters, the 2nd and the 21st unsafe in a path
LongDescription ==
    <<"a", ":", "c", "d", "e", "f", "g", "h", "i", "j", "k", "l", "m", "n", "o", "p", "q", "r",
      "s", "t", "?">>

\* the tasks of a batch: every kind of absent deadline, a relative and an
\* unreadable one, over two descriptions
ZipTasks ==
    { MakeTask(<<"a">>, MediumText, Missing, None),
      MakeTask(<<"a">>, MediumText, None, None),
      MakeTask(<<"a", "/", "b">>, MediumText, <<>>, None),
      MakeTask(<<"a", "/", "b">>, MediumText, NullText, None),
      MakeTask(<<"a">>, MediumText, <<"3", IL>>, None),
      MakeTask(<<"a", "/", "b">>, MediumText, <<"x">>, None),
      MakeTask(LongDescription, MediumText, None, None) }

\* every list of at most n tasks
TaskLists(n) == UNION {[1..k -> ZipTasks] : k \in 0..n}

\* the pieces a reply is made of: white space, other text, the fence marks,
\* objects (empty, complete, with a raw_response member, with a sentiment
\* outside the schema, cut short) and two whole fenced blocks
ObjectFull == <<"{", "S", ",", "K", ",", "T", ",", "A", ",", "F", ",", "P", ",", "U", "}">>
ObjectCut == <<"{", "S">>

Segments ==
    { <<" ">>, <<"\n">>, <<"x">>, FenceOpen, FenceClose,
      <<"{", "}">>, ObjectFull, <<"{", "S", ",", "R", "}">>, <<"{", "G", "}">>, ObjectCut,
      FenceOpen \o ObjectFull \o FenceClose, FenceOpen \o ObjectCut \o FenceClose }

\* every reply made of at most n pieces
Replies(n) == {Flatten(l) : l \in UNION {[1..k -> Segments] : k \in 0..n}}

\* the payloads of the parts of a message: empty, text, text with a tag
Payloads == { <<>>, <<"a">>, <<"<", "b", ">", "c">> }

\* the parts msg.walk() yields: text/plain and text/html parts, an attachment
MessageParts ==
    [type : {"text/plain", "text/html"}, payload : Payloads]
        \cup {[type |-> "image/png", payload |-> <<"a">>]}

Subjects == { <<>>, <<"s">> }

MakeMessage(multipart, subject, parts) ==
    [multipart |-> multipart, subject |-> subject, sender |-> <<"f">>, recipients |-> <<"t">>,
     date |-> <<"d">>, parts |-> parts]

\* the messages email.message_from_bytes makes: multipart ones of at most n
\* parts, and single-part ones of a text type
EmlMessages(n) ==
    {MakeMessage(TRUE, subject, parts) :
        subject \in Subjects, parts \in UNION {[1..k -> MessageParts] : k \in 1..n}}
    \cup
    {MakeMessage(FALSE, subject, <<part>>) :
        subject \in Subjects, part \in [type : {"text/plain", "text/html"}, payload : Payloads]}

\* the bytes of a .msg upload: none, text, a byte that is not UTF-8, a tag
MsgFiles == { <<>>, <<"x">>, <<BadByte>>, <<"<", "b", ">">> }

\* the tasks shown and exported: every kind of unspecified deadline and
\* assignee, and a priority that is missing, null, of the schema or not
ViewPriorities == {Missing, None, HighText, MediumText, LowText, <<"u", "r", "g", "e", "n", "t">>}
ViewDeadlines == {Missing, None, NullText, <<"3", IL>>}
ViewAssignees == {Missing, None, NullText, <<"k", "i", "m">>}

ViewTasks ==
    {MakeTask(<<"a", "<", "b">>, p, d, a) :
        p \in ViewPriorities, d \in ViewDeadlines, a \in ViewAssignees}

-----------------------------------------------------------------------------
(* The state machine *)

NoCall == [made |-> FALSE]

ZipIdle == [pc |-> "idle", tasks |-> <<>>, i |-> 0, calls |-> <<>>, members |-> <<>>]

NoResult == [path |-> "none", result |-> EmptyDict]

AnalysisIdle(client) ==
    [pc |-> "idle", client |-> client, reply |-> <<>>, requests |-> 0, outcome |-> "none",
     parse |-> NoResult, errors |-> 0, shown |-> FALSE, recorded |-> FALSE]

Init ==
    /\ clock \in StartInstants
    /\ ticks = 0
    /\ icsCall = NoCall
    /\ zip = ZipIdle
    /\ analysis = AnalysisIdle(FALSE)
    /\ views = <<>>
    /\ parses = <<>>
    /\ padsYear \in BOOLEAN

\* a second passes
Tick ==
    /\ ticks < MaxTicks
    /\ clock' = AddSecond(clock)
    /\ ticks' = ticks + 1
    /\ UNCHANGED <<padsYear, views, parses, icsCall, zip, analysis>>

\* one run of create_ics_event on task: the clock is read at lines 107-108 and
\* again when the deadline is resolved, d seconds later
IcsRun(task, email_subject, d) ==
    LET stampAt == clock
        resolveAt == IF d = 0 THEN clock ELSE AddSecond(clock)
    IN  [made |-> TRUE, task |-> task,
         taskAfter |-> TaskAfter(task, ResolveDeadline(task, resolveAt).ds),
         stampAt |-> stampAt, resolveAt |-> resolveAt,
         out |-> create_ics_event(task, email_subject, stampAt, resolveAt)]

\* main, lines 823-827: create_ics_event for one task of the result
CreateIcsEvent ==
    \E task \in IcsTasks, d \in 0..1 :
        /\ ~icsCall.made
        /\ ticks + d <= MaxTicks
        /\ icsCall' = IcsRun(task, <<"s">>, d)
        /\ clock' = IF d = 0 THEN clock ELSE AddSecond(clock)
        /\ ticks' = ticks + d
        /\ UNCHANGED <<padsYear, views, parses, zip, analysis>>

\* the caller is done with the returned document
IcsReturn ==
    /\ icsCall.made
    /\ icsCall' = NoCall
    /\ UNCHANGED <<padsYear, views, parses, clock, ticks, zip, analysis>>

\* create_calendar_zip(tasks, email_subject) is entered
ZipBegin ==
    \E tasks \in TaskLists(MaxTasks) :
        /\ zip.pc = "idle"
        /\ zip' = [pc |-> "loop", tasks |-> tasks, i |-> 1, calls |-> <<>>, members |-> <<>>]
        /\ UNCHANGED <<padsYear, views, parses, clock, ticks, icsCall, analysis>>

\* the archive after the i-th task's run: a member is written when a document
\* came back
WriteMember(members, i, task, run) ==
    IF run.out.doc.returned = "document"
    THEN Append(members, [name |-> MemberName(i, task), content |-> run.out.doc])
    ELSE members

\* the state of the loop after its pass over task i with this run
ZipAfter(z, run) ==
    [z EXCEPT !.i = z.i + 1,
              !.calls = Append(z.calls, run),
              !.members = WriteMember(z.members, z.i, z.tasks[z.i], run)]

\* one pass of the loop of lines 491-497
ZipStep ==
    \E d \in 0..1 :
        /\ zip.pc = "loop"
        /\ zip.i <= Len(zip.tasks)
        /\ ticks + d <= MaxTicks
        /\ zip' = ZipAfter(zip, IcsRun(zip.tasks[zip.i], <<"s">>, d))
        /\ clock' = IF d = 0 THEN clock ELSE AddSecond(clock)
        /\ ticks' = ticks + d
        /\ UNCHANGED <<padsYear, views, parses, icsCall, analysis>>

\* the loop is over: the archive is closed and returned
ZipEnd ==
    /\ zip.pc = "loop"
    /\ zip.i > Len(zip.tasks)
    /\ zip' = [zip EXCEPT !.pc = "done"]
    /\ UNCHANGED <<padsYear, views, parses, clock, ticks, icsCall, analysis>>

\* the caller is done with the returned archive
ZipReturn ==
    /\ zip.pc = "done"
    /\ zip' = ZipIdle
    /\ UNCHANGED <<padsYear, views, parses, clock, ticks, icsCall, analysis>>

\* one call of the parser on an upload, at the instant the clock shows
ParseRun(kind, input) ==
    [kind |-> kind, input |-> input, at |-> clock,
     out |-> IF kind = "eml" THEN parse_eml_file(input)
             ELSE parse_msg_file(input.file_content, clock)]

\* main, lines 654-655: an .eml upload is parsed
ParseEml ==
    \E msg \in EmlMessages(MaxParts) :
        /\ parses = <<>>
        /\ parses' = <<ParseRun("eml", msg)>>
        /\ UNCHANGED <<padsYear, views, clock, ticks, icsCall, zip, analysis>>

\* main, lines 669-670: a .msg upload is parsed
ParseMsg ==
    \E bytes \in MsgFiles :
        /\ parses = <<>>
        /\ parses' = <<ParseRun("msg", [file_content |-> bytes])>>
        /\ UNCHANGED <<padsYear, views, clock, ticks, icsCall, zip, analysis>>

\* main runs again with the same upload: the same bytes are parsed again
ParseAgain ==
    /\ Len(parses) = 1
    /\ parses' = Append(parses, ParseRun(parses[1].kind, parses[1].input))
    /\ UNCHANGED <<padsYear, views, clock, ticks, icsCall, zip, analysis>>

\* the upload is removed
ParseReturn ==
    /\ parses # <<>>
    /\ parses' = <<>>
    /\ UNCHANGED <<padsYear, views, clock, ticks, icsCall, zip, analysis>>

\* what main shows and exports for one task of a result, at the instant the
\* clock shows: lines 741, 764, 779, 810 and 827
View(task) ==
    [task |-> task, at |-> clock,
     ics |-> create_ics_event(task, <<"s">>, clock, clock).doc,
     summary |-> create_calendar_summary(<<task>>)[1],
     pdf |-> PdfRow(1, task),
     excel |-> ExcelRow(1, task),
     display |-> DisplayTask(1, task)]

\* a task of a result is shown and exported
ViewTask ==
    \E task \in ViewTasks :
        /\ views = <<>>
        /\ views' = <<View(task)>>
        /\ UNCHANGED <<padsYear, parses, clock, ticks, icsCall, zip, analysis>>

\* a task of the same description and priority is shown and exported
ViewAnother ==
    \E task \in ViewTasks :
        /\ Len(views) = 1
        /\ task["task"] = views[1].task["task"]
        /\ task["priority"] = views[1].task["priority"]
        /\ views' = Append(views, View(task))
        /\ UNCHANGED <<padsYear, parses, clock, ticks, icsCall, zip, analysis>>

\* the result is cleared
ViewReturn ==
    /\ views # <<>>
    /\ views' = <<>>
    /\ UNCHANGED <<padsYear, parses, clock, ticks, icsCall, zip, analysis>>

\* initialize_azure_openai, lines 506-517
InitializeClient ==
    /\ analysis.pc = "idle"
    /\ analysis' = [analysis EXCEPT !.client = TRUE]
    /\ UNCHANGED <<padsYear, views, parses, clock, ticks, icsCall, zip>>

\* analyze_email with no client: line 522 raises before any request
AnalyzeUnconfigured ==
    /\ analysis.pc = "idle"
    /\ ~analysis.client
    /\ analysis' = [analysis EXCEPT !.pc = "done", !.outcome = "raised"]
    /\ UNCHANGED <<padsYear, views, parses, clock, ticks, icsCall, zip>>

\* line 550: the request is sent
AnalyzeSend ==
    /\ analysis.pc = "idle"
    /\ analysis.client
    /\ analysis' = [analysis EXCEPT !.pc = "sent", !.requests = @ + 1]
    /\ UNCHANGED <<padsYear, views, parses, clock, ticks, icsCall, zip>>

\* RequestFailed sending the request once more before giving up
RequestFailedRetry(a) ==
    IF a.requests < 2 THEN [a EXCEPT !.pc = "idle"]
    ELSE [a EXCEPT !.pc = "done", !.outcome = "None", !.errors = @ + 1]

\* lines 578-580: the error is reported and None is returned
RequestFailed(a) == [a EXCEPT !.pc = "done", !.outcome = "None", !.errors = @ + 1]

\* the request raises
AnalyzeRequestFails ==
    /\ analysis.pc = "sent"
    /\ analysis' = RequestFailed(analysis)
    /\ UNCHANGED <<padsYear, views, parses, clock, ticks, icsCall, zip>>

\* the request returns a reply: lines 561-576
AnalyzeReply ==
    \E reply \in Replies(MaxSegs) :
        /\ analysis.pc = "sent"
        /\ analysis' = [analysis EXCEPT !.pc = "done", !.reply = reply,
                                        !.outcome = "returned", !.parse = ParseReply(reply)]
        /\ UNCHANGED <<padsYear, views, parses, clock, ticks, icsCall, zip>>

\* the truth value of what analyze_email returned: None and the empty dict
\* are false
ResultTruthy(a) == a.outcome = "returned" /\ DOMAIN a.parse.result # {}

\* main, lines 739-752: a result that is true is displayed and appended to
\* the history
MainAfterAnalyze ==
    /\ analysis.pc = "done"
    /\ analysis.outcome # "raised"
    /\ analysis' = [analysis EXCEPT !.pc = "handled",
                                    !.shown = ResultTruthy(analysis),
                                    !.recorded = ResultTruthy(analysis)]
    /\ UNCHANGED <<padsYear, views, parses, clock, ticks, icsCall, zip>>

\* the invocation is over
AnalyzeReturn ==
    /\ \/ analysis.pc = "handled"
       \/ analysis.pc = "done" /\ analysis.outcome = "raised"
    /\ analysis' = AnalysisIdle(analysis.client)
    /\ UNCHANGED <<padsYear, views, parses, clock, ticks, icsCall, zip>>

NextAnalyze ==
    \/ InitializeClient \/ AnalyzeUnconfigured \/ AnalyzeSend \/ AnalyzeRequestFails
    \/ AnalyzeReply \/ MainAfterAnalyze \/ AnalyzeReturn

SpecAnalyze == Init /\ [][NextAnalyze]_vars

NextView == Tick \/ ViewTask \/ ViewAnother \/ ViewReturn

SpecView == Init /\ [][NextView]_vars

NextParse == Tick \/ ParseEml \/ ParseMsg \/ ParseAgain \/ ParseReturn

SpecParse == Init /\ [][NextParse]_vars

NextIcs == Tick \/ CreateIcsEvent \/ IcsReturn

SpecIcs == Init /\ [][NextIcs]_vars

NextZip == Tick \/ ZipBegin \/ ZipStep \/ ZipEnd \/ ZipReturn

SpecZip == Init /\ [][NextZip]_vars

-----------------------------------------------------------------------------
(* Properties of create_ics_event and create_calendar_zip *)

\* a deadline that is None, the empty text or the text 'null'
AbsentDeadline(task) == Get(task, "deadline") \in {None, <<>>, NullText}

PlusDays(dt, n) == [ord |-> dt.ord + n, sec |-> dt.sec]

\* the members of the archive written for the k-th task of the batch
MembersOf(k) ==
    {j \in DOMAIN zip.members :
        /\ zip.members[j].content = zip.calls[k].out.doc
        /\ zip.members[j].name = MemberName(k, zip.calls[k].task)}

\* C1 as stated: for every task of a batch whose deadline is absent,
\* create_ics_event produces no document and the archive gets no member.
C1_NoEventWithoutDeadline ==
    \A k \in DOMAIN zip.calls :
        AbsentDeadline(zip.calls[k].task)
            => /\ zip.calls[k].out.doc.returned = "None"
               /\ MembersOf(k) = {}

\* C1 amended: for every task of a batch whose deadline is absent,
\* create_ics_event produces a document dated seven days after the instant
\* of resolution, and the archive gets a member holding it.
C1_FallbackEventWithoutDeadline ==
    \A k \in DOMAIN zip.calls :
        AbsentDeadline(zip.calls[k].task)
            => /\ zip.calls[k].out.doc.returned = "document"
               /\ zip.calls[k].out.due_date = PlusDays(zip.calls[k].resolveAt, 7)
               /\ zip.calls[k].out.doc.dtstart = StrftimeStamp(PlusDays(zip.calls[k].resolveAt, 7))
               /\ MembersOf(k) # {}

C1_Witness ==
    /\ zip.pc = "done"
    /\ \E k \in DOMAIN zip.calls :
        /\ Get(zip.calls[k].task, "deadline") = None
        /\ zip.calls[k].out.doc.returned = "document"
        /\ MembersOf(k) # {}

\* C6 as stated: the events generated by one batch have pairwise different UIDs.
C6_UidsDistinct ==
    \A j \in DOMAIN zip.members, k \in DOMAIN zip.members :
        j # k => zip.members[j].content.uid # zip.members[k].content.uid

\* the first 20 characters of a description, each character that is unsafe in
\* a path replaced by an underscore
SafeDescription(d) ==
    [k \in 1..(IF Len(d) < 20 THEN Len(d) ELSE 20) |->
        IF d[k] \in {"<", ">", ":", "\"", "/", "\\", "|", "?", "*"} THEN "_" ELSE d[k]]

\* C24: when create_ics_event returned a document for each of the n tasks of
\* a batch, the archive has n members, the k-th named after the k-th task's
\* number and description; the names differ from one another and have no
\* character that is unsafe in a path.
C24_OneSafeMemberPerTask ==
    (/\ zip.pc = "done"
     /\ \A k \in DOMAIN zip.calls : zip.calls[k].out.doc.returned = "document")
        => /\ Len(zip.members) = Len(zip.tasks)
           /\ \A k \in DOMAIN zip.members :
                  /\ zip.members[k].name
                         = <<"t", "a", "s", "k", "_">> \o NatText(k) \o <<"_">>
                             \o SafeDescription(zip.tasks[k]["task"]) \o <<".", "i", "c", "s">>
                  /\ zip.members[k].content = zip.calls[k].out.doc
                  /\ \A c \in {"<", ">", ":", "\"", "/", "\\", "|", "?", "*"} :
                         ~Contains(zip.members[k].name, c)
           /\ \A j \in DOMAIN zip.members, k \in DOMAIN zip.members :
                  j # k => zip.members[j].name # zip.members[k].name

\* a batch of two tasks of one description, which has an unsafe character
C24_Witness ==
    /\ zip.pc = "done"
    /\ Len(zip.tasks) = 2
    /\ zip.tasks[1]["task"] = <<"a", "/", "b">>
    /\ zip.tasks[2]["task"] = <<"a", "/", "b">>
    /\ Len(zip.members) = 2
    /\ zip.members[1].name # zip.members[2].name

\* the four grammars, each read on the text as given
IsoGrammar(s) == Strptime(s, <<"%Y", "-", "%m", "-", "%d">>)

DayGrammar(s, now) ==
    IF ~Contains(s, IL) \/ PyInt(Remove(s, IL)).exc # "none" THEN Raise("ValueError")
    ELSE LET n == PyInt(Remove(s, IL)).v IN
        IF now.ord + n < 1 \/ now.ord + n > MaxOrdinal THEN Raise("OverflowError")
        ELSE Ok(PlusDays(now, n))

MonthDayGrammar(s, now) ==
    Strptime(YearText(now) \o <<NYEON, " ">> \o s, <<"%Y", NYEON, " ", "%m", WOL, " ", "%d", IL>>)

SlashGrammar(s, now) ==
    Strptime(YearText(now) \o <<"/">> \o s, <<"%Y", "/", "%m", "/", "%d">>)

\* the first grammar accepting s in the order ISO, N-day, month-day, MM/DD,
\* with the date it gives; the fallback when none does
FirstMatch(s, now) ==
    IF IsoGrammar(s).exc = "none" THEN <<"iso", IsoGrammar(s).v>>
    ELSE IF DayGrammar(s, now).exc = "none" THEN <<"nday", DayGrammar(s, now).v>>
    ELSE IF MonthDayGrammar(s, now).exc = "none" THEN <<"month", MonthDayGrammar(s, now).v>>
    ELSE IF SlashGrammar(s, now).exc = "none" THEN <<"slash", SlashGrammar(s, now).v>>
    ELSE <<"fallback", PlusDays(now, 7)>>

PathClass(path) == IF path \in {"unparsed", "except", "absent"} THEN "fallback" ELSE path

PresentDeadline(task) == Truthy(Get(task, "deadline")) /\ task["deadline"] # NullText

\* C7: a deadline is resolved by the first grammar accepting it in the order
\* ISO, N-day, month-day, MM/DD, and to the date that grammar gives on the
\* text as given, whatever attempts failed before it.
C7_FirstGrammarWins ==
    (icsCall.made /\ PresentDeadline(icsCall.task))
        => <<PathClass(icsCall.out.path), icsCall.out.due_date>>
               = FirstMatch(icsCall.task["deadline"], icsCall.resolveAt)

C7_Witness ==
    /\ icsCall.made
    /\ icsCall.task["deadline"] = <<"0", "3", "/", "1", "3">>
    /\ icsCall.out.path = "slash"
    /\ IsoGrammar(icsCall.task["deadline"]).exc = "ValueError"

\* the day counts the N-day phrases of the inputs carry, signed
DayPhrases ==
    {[text |-> sign \o n \o <<IL>>,
      days |-> IF sign = <<>> THEN DigitsValue(n, 0) ELSE 0 - DigitsValue(n, 0)] :
        sign \in {<<>>, <<"-">>}, n \in NumTexts}

\* C8 as stated: an N-day phrase resolves to the instant of resolution plus
\* exactly N days, for every N.
C8_DayPhraseAddsDays ==
    \A p \in DayPhrases :
        (icsCall.made /\ icsCall.task["deadline"] = p.text)
            => icsCall.out.due_date = PlusDays(icsCall.resolveAt, p.days)

\* C8 amended: an N-day phrase resolves to the instant of resolution plus
\* exactly N days when that date is within datetime's range (years 1 to
\* 9999), and to the instant of resolution plus seven days otherwise.
C8_DayPhraseAddsDaysInRange ==
    \A p \in DayPhrases :
        (icsCall.made /\ icsCall.task["deadline"] = p.text)
            => icsCall.out.due_date =
                   IF icsCall.resolveAt.ord + p.days >= 1
                      /\ icsCall.resolveAt.ord + p.days <= Ymd2Ord(9999, 12, 31)
                   THEN PlusDays(icsCall.resolveAt, p.days)
                   ELSE PlusDays(icsCall.resolveAt, 7)

C8_Witness ==
    /\ icsCall.made
    /\ icsCall.task["deadline"] = <<"3", "0", IL>>
    /\ icsCall.out.path = "nday"
    /\ icsCall.out.due_date = PlusDays(icsCall.resolveAt, 30)
    /\ icsCall.resolveAt.sec # 0

NoGrammarAccepts(s, now) ==
    /\ IsoGrammar(s).exc # "none"
    /\ DayGrammar(s, now).exc # "none"
    /\ MonthDayGrammar(s, now).exc # "none"
    /\ SlashGrammar(s, now).exc # "none"

\* C9: for every non-empty deadline create_ics_event returns a document with a
\* date, and when no grammar accepts the deadline the date is the instant of
\* resolution plus seven days.
C9_ResolutionTotal ==
    (icsCall.made /\ Truthy(Get(icsCall.task, "deadline")))
        => /\ icsCall.out.doc.returned = "document"
           /\ icsCall.out.doc.dtstart = StrftimeStamp(icsCall.out.due_date)
           /\ NoGrammarAccepts(icsCall.task["deadline"], icsCall.resolveAt)
                  => icsCall.out.due_date = PlusDays(icsCall.resolveAt, 7)

C9_Witness ==
    /\ icsCall.made
    /\ icsCall.task["deadline"] = <<"-", "9", "9", "9", "9", "9", "9", "9", IL>>
    /\ icsCall.out.doc.returned = "document"
    /\ icsCall.out.due_date = PlusDays(icsCall.resolveAt, 7)

\* YYYY-MM-DD and YYYYMMDD of a date
IsoText(y, m, d) ==
    ZeroPad(NatText(y), 4) \o <<"-">> \o ZeroPad(NatText(m), 2) \o <<"-">> \o ZeroPad(NatText(d), 2)

CompactText(y, m, d) == ZeroPad(NatText(y), 4) \o ZeroPad(NatText(m), 2) \o ZeroPad(NatText(d), 2)

\* the dates of 2024, a leap year, and of 2025
MonthLengths == <<31, 28, 31, 30, 31, 30, 31, 31, 30, 31, 30, 31>>

IsoDates ==
    {[text |-> IsoText(x[1], x[2], x[3]), compact |-> CompactText(x[1], x[2], x[3])] :
        x \in {q \in (2024..2025) \X (1..12) \X (1..31) :
                  q[3] <= MonthLengths[q[2]] + (IF q[1] = 2024 /\ q[2] = 2 THEN 1 ELSE 0)}}

\* C10: a deadline YYYY-MM-DD naming a date of the calendar resolves to
\* midnight of that date, whatever the instant of resolution.
C10_IsoExact ==
    \A p \in IsoDates :
        (icsCall.made /\ icsCall.task["deadline"] = p.text)
            => /\ icsCall.out.path = "iso"
               /\ icsCall.out.doc.dtstart
                      = p.compact \o <<"T", "0", "0", "0", "0", "0", "0", "Z">>

C10_Witness ==
    /\ icsCall.made
    /\ icsCall.task["deadline"] = IsoText(2024, 2, 29)
    /\ icsCall.out.path = "iso"
    /\ icsCall.resolveAt.sec # 0

\* C23: in every document create_ics_event returns, DTEND is DTSTART, by
\* whatever path the deadline was resolved.
C23_PointInTime ==
    (icsCall.made /\ icsCall.out.doc.returned = "document")
        => /\ icsCall.out.doc.dtend = icsCall.out.doc.dtstart
           /\ icsCall.out.doc.dtend = StrftimeStamp(icsCall.out.due_date)

\* an event dated by the bare except, at a time of day other than midnight
C23_Witness ==
    /\ icsCall.made
    /\ icsCall.out.path = "except"
    /\ icsCall.out.doc.returned = "document"
    /\ icsCall.out.due_date.sec # 0
    /\ icsCall.out.doc.dtend = icsCall.out.doc.dtstart

\* the month-day phrases and MM/DD texts of the inputs, with the month and day
\* they name
MonthDayPhrases ==
    {[text |-> m \o <<WOL, " ">> \o d \o <<IL>>, kind |-> "month",
      month |-> DigitsValue(m, 0), day |-> DigitsValue(d, 0)] :
        m \in {n \in NumTexts : Len(n) <= 2 /\ DigitsValue(n, 0) \in 1..12},
        d \in {n \in NumTexts : Len(n) <= 2 /\ DigitsValue(n, 0) \in 1..31}}
    \cup
    {[text |-> m \o <<"/">> \o d, kind |-> "slash",
      month |-> DigitsValue(m, 0), day |-> DigitsValue(d, 0)] :
        m \in {n \in NumTexts : Len(n) <= 2 /\ DigitsValue(n, 0) \in 1..12},
        d \in {n \in NumTexts : Len(n) <= 2 /\ DigitsValue(n, 0) \in 1..31}}

\* the year of the instant at which the deadline is resolved
ResolutionYear == Ord2Ymd(icsCall.resolveAt.ord).year

\* C11: a deadline that is a month-day phrase or MM/DD naming a date of the
\* year of the instant of resolution resolves to midnight of that month and
\* day in that year, before or after the instant of resolution.
C11_MonthDayInCurrentYear ==
    \A p \in MonthDayPhrases :
        (/\ icsCall.made
         /\ icsCall.task["deadline"] = p.text
         /\ p.day <= DaysInMonth(ResolutionYear, p.month))
            => /\ icsCall.out.path = p.kind
               /\ icsCall.out.due_date = DateTime(ResolutionYear, p.month, p.day, 0)
               /\ icsCall.out.doc.dtstart
                      = CompactText(ResolutionYear, p.month, p.day)
                            \o <<"T", "0", "0", "0", "0", "0", "0", "Z">>

\* a month-day phrase resolved to a date already past
C11_Witness ==
    /\ icsCall.made
    /\ icsCall.task["deadline"] = <<"3", WOL, " ", "1", "3", IL>>
    /\ icsCall.out.path = "month"
    /\ ResolutionYear = 2025
    /\ icsCall.out.due_date = DateTime(2025, 3, 13, 0)
    /\ icsCall.out.due_date.ord < icsCall.resolveAt.ord

\* C12: after create_ics_event the task is the dict it was before, on every
\* path, and the row create_calendar_summary makes for it shows the deadline
\* as given (the placeholder when the deadline is absent).
C12_TaskUnchanged ==
    icsCall.made
        => /\ icsCall.taskAfter = icsCall.task
           /\ create_calendar_summary(<<icsCall.taskAfter>>)[1].deadline
                  = IF PresentDeadline(icsCall.task) THEN icsCall.task["deadline"]
                    ELSE DefaultAssignee

\* a month phrase no format accepts: the working string was rewritten, the
\* task still holds the text as given
C12_Witness ==
    /\ icsCall.made
    /\ icsCall.task["deadline"] = <<"1", "3", WOL, " ", "3", IL>>
    /\ icsCall.out.path = "unparsed"
    /\ icsCall.out.deadline_str # icsCall.task["deadline"]
    /\ icsCall.taskAfter["deadline"] = <<"1", "3", WOL, " ", "3", IL>>

\* reading a DTSTART value back: the DATE-TIME form of iCalendar, four digits
\* of year, two of month, two of day, T, six digits of time, Z
ReadDtstart(s) ==
    IF /\ Len(s) = 16
       /\ s[9] = "T"
       /\ s[16] = "Z"
       /\ \A k \in (1..8) \cup (10..15) : IsDigit(s[k])
    THEN [ok |-> TRUE, year |-> DigitsValue(SubSeq(s, 1, 4), 0),
          month |-> DigitsValue(SubSeq(s, 5, 6), 0), day |-> DigitsValue(SubSeq(s, 7, 8), 0)]
    ELSE [ok |-> FALSE, year |-> 0, month |-> 0, day |-> 0]

\* C13 as stated: the DTSTART of every document create_ics_event returns reads
\* back as the calendar date the deadline resolved to.
C13_DtstartRoundTrip ==
    (icsCall.made /\ icsCall.out.doc.returned = "document")
        => LET back == ReadDtstart(icsCall.out.doc.dtstart)
               ymd == Ord2Ymd(icsCall.out.due_date.ord)
           IN  /\ back.ok
               /\ back.year = ymd.year
               /\ back.month = ymd.month
               /\ back.day = ymd.day

-----------------------------------------------------------------------------
(* Properties of analyze_email *)

\* a reply has been received and analyze_email has returned
Replied == analysis.pc = "done" /\ analysis.outcome = "returned"

\* neither the fenced block of the reply nor the whole reply is JSON
Unparsable(reply) ==
    /\ JsonLoads(reply).exc # "none"
    /\ FenceFound(reply) => JsonLoads(FenceGroup(reply)).exc # "none"

\* the reply from its first to its last character that is not white space
Trimmed(s) ==
    LET inked == {k \in 1..Len(s) : s[k] \notin {" ", "\n"}} IN
    IF inked = {} THEN <<>>
    ELSE SubSeq(s, CHOOSE a \in inked : \A b \in inked : a <= b,
                   CHOOSE a \in inked : \A b \in inked : a >= b)

\* C2 as stated: for an unparsable reply the degraded result is returned and
\* its raw_response is the reply, character for character.
C2_RawResponseIsReply ==
    (Replied /\ Unparsable(analysis.reply))
        => /\ analysis.parse.path = "fallback"
           /\ "raw_response" \in DOMAIN analysis.parse.result
           /\ analysis.parse.result["raw_response"] = analysis.reply

\* C2 amended: for an unparsable reply the degraded result is returned and
\* its raw_response is the reply without the white space before its first
\* and after its last other character.
C2_RawResponseIsTrimmedReply ==
    (Replied /\ Unparsable(analysis.reply))
        => /\ analysis.parse.path = "fallback"
           /\ "raw_response" \in DOMAIN analysis.parse.result
           /\ analysis.parse.result["raw_response"] = Trimmed(analysis.reply)

C2_Witness ==
    /\ Replied
    /\ analysis.reply = <<" ">> \o FenceOpen \o ObjectCut \o FenceClose
    /\ Unparsable(analysis.reply)
    /\ analysis.parse.path = "fallback"
    /\ analysis.parse.result["raw_response"] = FenceOpen \o ObjectCut \o FenceClose

\* C3 as stated: a result parsed from the reply has every field of the
\* schema, its sentiment and urgency_level among the values of the schema.
C3_ParsedResultComplete ==
    (Replied /\ analysis.parse.path = "parsed")
        => /\ SchemaKeys \subseteq DOMAIN analysis.parse.result
           /\ analysis.parse.result["sentiment"] \in {"positive", "neutral", "negative"}
           /\ analysis.parse.result["urgency_level"] \in {"high", "medium", "low"}

\* the degraded result without its raw_response
WithoutRaw(d) == [k \in DOMAIN d \ {"raw_response"} |-> d[k]]

\* C4 as stated: the degraded result is fixed apart from raw_response, with
\* empty tasks, key_points and action_items.
C4_DegradedListsEmpty ==
    (Replied /\ analysis.parse.path = "fallback")
        => WithoutRaw(analysis.parse.result)
               = [summary |-> <<"parse error">>, key_points |-> <<>>, tasks |-> <<>>,
                  action_items |-> <<>>, follow_up |-> <<"retry">>,
                  sentiment |-> "neutral", urgency_level |-> "medium"]

\* C4 amended: the degraded result is fixed apart from raw_response: canned
\* summary and follow_up, key_points holding one canned sentence, empty tasks
\* and action_items, sentiment neutral and urgency_level medium.
C4_DegradedFixed ==
    (Replied /\ analysis.parse.path = "fallback")
        => WithoutRaw(analysis.parse.result)
               = [summary |-> <<"parse error">>, key_points |-> << <<"see the raw response">> >>,
                  tasks |-> <<>>, action_items |-> <<>>, follow_up |-> <<"retry">>,
                  sentiment |-> "neutral", urgency_level |-> "medium"]

C4_Witness ==
    /\ Replied
    /\ analysis.reply = ObjectCut
    /\ analysis.parse.path = "fallback"
    /\ analysis.parse.result["key_points"] = << <<"see the raw response">> >>

\* C5 as stated: the returned result has a raw_response exactly when the
\* degraded path was taken.
C5_RawResponseIffDegraded ==
    Replied => ("raw_response" \in DOMAIN analysis.parse.result
                    <=> analysis.parse.path = "fallback")

-----------------------------------------------------------------------------
(* Properties of EmailParser *)

\* the positions of the parts of a type, and the first of them
PartsOfType(msg, type) == {k \in DOMAIN msg.parts : msg.parts[k].type = type}

FirstOfType(msg, type) ==
    CHOOSE k \in PartsOfType(msg, type) : \A j \in PartsOfType(msg, type) : k <= j

\* C14 as stated: the body of a multipart message is the content of its first
\* text/plain part alone when it has one, and the content of its first
\* text/html part without the tags when it has none.
C14_FirstPlainPartOnly ==
    \A k \in DOMAIN parses :
        (parses[k].kind = "eml" /\ parses[k].input.multipart)
            => LET msg == parses[k].input IN
               /\ PartsOfType(msg, "text/plain") # {}
                    => parses[k].out.body = Decode(msg.parts[FirstOfType(msg, "text/plain")].payload)
               /\ (PartsOfType(msg, "text/plain") = {} /\ PartsOfType(msg, "text/html") # {})
                    => parses[k].out.body
                           = StripTags(Decode(msg.parts[FirstOfType(msg, "text/html")].payload))

\* the message has HTML and no plain text: a single part of type text/html, or
\* parts of which one is text/html and none text/plain
HtmlSource(msg) ==
    /\ PartsOfType(msg, "text/html") # {}
    /\ PartsOfType(msg, "text/plain") = {}

\* C15 as stated: the body of a record made from an HTML source has no tag
\* left, for a single-part message as for a multipart one.
C15_HtmlBodyStripped ==
    \A k \in DOMAIN parses :
        (parses[k].kind = "eml" /\ HtmlSource(parses[k].input))
            => /\ StripTags(parses[k].out.body) = parses[k].out.body
               /\ ~parses[k].input.multipart
                    => parses[k].out.body = StripTags(Decode(parses[k].input.parts[1].payload))

\* C16 as stated: full_content is not empty when body or subject is not.
C16_FullContentNonEmpty ==
    \A k \in DOMAIN parses :
        (parses[k].out.body # <<>> \/ parses[k].out.subject # <<>>)
            => parses[k].out.full_content # <<>>

\* C17 as stated: two calls of the parser on the same bytes give records
\* equal in every field, whenever the calls are made.
C17_ParseIdempotent ==
    Len(parses) = 2 => parses[1].out = parses[2].out

-----------------------------------------------------------------------------
(* Properties of analyze_email and of main's use of it *)

C19_ErrorOrResult ==
    analysis.pc = "handled"
        => \/ /\ analysis.outcome = "None"
              /\ analysis.errors = 1
              /\ ~analysis.shown
              /\ ~analysis.recorded
           \/ /\ analysis.outcome = "returned"
              /\ analysis.errors = 0
              /\ analysis.shown
              /\ analysis.recorded

\* the fenced json blocks of a text: where one opens and where it closes,
\* the closing mark being the first after the opening one
Blocks(s) ==
    {b \in (1..Len(s)) \X (1..Len(s)) :
        /\ IsAt(s, b[1], FenceOpen)
        /\ b[2] >= b[1] + Len(FenceOpen)
        /\ IsAt(s, b[2], FenceClose)
        /\ \A q \in (b[1] + Len(FenceOpen))..(b[2] - 1) : ~IsAt(s, q, FenceClose)}

\* the content of the block that opens first
FirstBlock(s) ==
    LET b == CHOOSE x \in Blocks(s) : \A y \in Blocks(s) : x[1] <= y[1]
    IN  SubSeq(s, b[1] + Len(FenceOpen), b[2] - 1)

\* C20: the result is parsed from the first fenced json block of the reply
\* when the reply has one and from the whole reply when it has none; when
\* that text is not JSON the degraded result is returned, whatever block
\* follows.
C20_FirstBlockParsed ==
    Replied
        => LET text == IF Blocks(analysis.reply) # {} THEN FirstBlock(analysis.reply)
                       ELSE analysis.reply
           IN  IF JsonLoads(text).exc = "none"
               THEN analysis.parse.path = "parsed" /\ analysis.parse.result = JsonLoads(text).v
               ELSE analysis.parse.path = "fallback"

\* a reply whose first block is cut short and whose second is complete
C20_Witness ==
    /\ Replied
    /\ analysis.reply = FenceOpen \o ObjectCut \o FenceClose
                             \o FenceOpen \o ObjectFull \o FenceClose
    /\ FirstBlock(analysis.reply) = ObjectCut
    /\ analysis.parse.path = "fallback"

-----------------------------------------------------------------------------
(* Properties of the consumers of a task *)

\* the two values are equal, or one is None and the other the text 'null'
SameOrNullPair(v, w) == v = w \/ {v, w} = {None, NullText}

\* two tasks that differ at most in having None or 'null' as deadline or as
\* assignee
NullTwins(t, u) ==
    /\ t["task"] = u["task"]
    /\ t["priority"] = u["priority"]
    /\ SameOrNullPair(t["deadline"], u["deadline"])
    /\ SameOrNullPair(t["assignee"], u["assignee"])

\* C21 as stated: for two tasks that differ only in having None or 'null' as
\* deadline or assignee, every consumer makes the same output at the same
\* instant.
C21_NullAndSentinelEquivalent ==
    (/\ Len(views) = 2
     /\ views[1].at = views[2].at
     /\ NullTwins(views[1].task, views[2].task))
        => /\ views[1].ics = views[2].ics
           /\ views[1].summary = views[2].summary
           /\ views[1].pdf = views[2].pdf
           /\ views[1].excel = views[2].excel
           /\ views[1].display = views[2].display

\* C22: the PRIORITY of every event generated is 1 for the priority high, 5
\* for low and 3 for medium, for a missing priority and for any other value.
C22_PriorityNumber ==
    \A k \in DOMAIN views :
        views[k].ics.returned = "document"
            => /\ views[k].ics.priority \in {1, 3, 5}
               /\ views[k].ics.priority =
                      IF Get(views[k].task, "priority") = <<"h", "i", "g", "h">> THEN 1
                      ELSE IF Get(views[k].task, "priority") = <<"l", "o", "w">> THEN 5
                      ELSE 3

\* an event for a task whose priority is no value of the schema
C22_Witness ==
    /\ Len(views) = 1
    /\ views[1].task["priority"] = <<"u", "r", "g", "e", "n", "t">>
    /\ views[1].ics.returned = "document"
    /\ views[1].ics.priority = 3

====
